---- MODULE Spec2Model ----
(***************************************************************************)
(* Model of product-recommender-poc.py: the gift-recommendation dialogue.  *)
(*                                                                         *)
(* The program is a LangGraph StateGraph of three nodes                    *)
(* (gather_information, provide_summary, recommend_products) driven by     *)
(* step_by_step_interaction.  The graph is executed in supersteps: every   *)
(* node triggered by an edge of a node of the previous superstep runs in   *)
(* the next one, each on its own copy of the channel values; a node        *)
(* returns the whole record, so each of its keys is one write; a           *)
(* last-value channel accepts one write per superstep.                     *)
(*                                                                         *)
(* Python strings are sequences of one-character strings, so that strip,   *)
(* split, splitlines, upper, lower and the digit search are computed.      *)
(* Optional[T] is a sequence of length at most one: None is << >> and a    *)
(* value v is <<v>>.                                                       *)
(***************************************************************************)
EXTENDS Integers, Sequences, FiniteSets, TLC

VARIABLES
    state,      \* the driver's record (step_by_step_interaction's `state`)
    pc,         \* the driver's position
    channels,   \* the graph's channel values during graph.invoke
    active,     \* the nodes scheduled in the current superstep
    finished,   \* the nodes of the superstep that have returned
    local,      \* node -> the record the node works on and returns
    error,      \* the exception that ended the session, or "none"
    catalog,    \* the contents of the module-level list SAMPLE_PRODUCTS
    last        \* the last operation performed and what it interacted with

vars == <<state, pc, channels, active, finished, local, error, catalog, last>>

----------------------------------------------------------------------------
(* Python str methods *)

Whitespace == {" ", "\t", "\n", "\r"}

LineBreaks == {"\n", "\r"}

Digits == {"0", "1", "2", "3", "4", "5", "6", "7", "8", "9"}

LowerCase == <<"a", "b", "c", "d", "e", "f", "g", "h", "i", "j", "k", "l", "m",
               "n", "o", "p", "q", "r", "s", "t", "u", "v", "w", "x", "y", "z">>

UpperCase == <<"A", "B", "C", "D", "E", "F", "G", "H", "I", "J", "K", "L", "M",
               "N", "O", "P", "Q", "R", "S", "T", "U", "V", "W", "X", "Y", "Z">>

UpperChar(c) ==
    IF \E i \in DOMAIN LowerCase : LowerCase[i] = c
    THEN UpperCase[CHOOSE i \in DOMAIN LowerCase : LowerCase[i] = c]
    ELSE c

LowerChar(c) ==
    IF \E i \in DOMAIN UpperCase : UpperCase[i] = c
    THEN LowerCase[CHOOSE i \in DOMAIN UpperCase : UpperCase[i] = c]
    ELSE c

\* str.upper()
Upper(s) == [i \in DOMAIN s |-> UpperChar(s[i])]

\* str.lower()
Lower(s) == [i \in DOMAIN s |-> LowerChar(s[i])]

RECURSIVE LStrip(_)
LStrip(s) ==
    IF s = << >> THEN << >>
    ELSE IF Head(s) \in Whitespace THEN LStrip(Tail(s)) ELSE s

RECURSIVE RStrip(_)
RStrip(s) ==
    IF s = << >> THEN << >>
    ELSE IF s[Len(s)] \in Whitespace THEN RStrip(SubSeq(s, 1, Len(s) - 1)) ELSE s

\* str.strip()
Strip(s) == RStrip(LStrip(s))

\* the pieces of s between separator characters, empty pieces included
RECURSIVE Pieces(_, _, _)
Pieces(s, seps, cur) ==
    IF s = << >> THEN <<cur>>
    ELSE IF Head(s) \in seps
         THEN <<cur>> \o Pieces(Tail(s), seps, << >>)
         ELSE Pieces(Tail(s), seps, Append(cur, Head(s)))

\* str.split(): whitespace-separated tokens, no empty token
Split(s) == SelectSeq(Pieces(s, Whitespace, << >>), LAMBDA t : t # << >>)

\* [l.strip() for l in s.splitlines() if l.strip()]
NonBlankLines(s) ==
    LET stripped == Pieces(s, LineBreaks, << >>)
        lines == [i \in DOMAIN stripped |-> Strip(stripped[i])]
    IN  SelectSeq(lines, LAMBDA l : l # << >>)

\* re.search(r"\d", s)
HasDigit(s) == \E i \in DOMAIN s : s[i] \in Digits

ToSet(seq) == {seq[i] : i \in DOMAIN seq}

----------------------------------------------------------------------------
(* Optional values and the conversation record *)

None == << >>

Some(v) == <<v>>

IsNone(x) == x = << >>

\* Python truthiness of an Optional[str]: neither None nor ""
Truthy(x) == x # << >> /\ x[1] # << >>

Fields == {"name", "gift_subject", "gift_object", "price_range", "summary", "product_list"}

\* the record step_by_step_interaction starts from
EmptyState ==
    [name |-> None, gift_subject |-> None, gift_object |-> None,
     price_range |-> None, summary |-> None, product_list |-> None]

----------------------------------------------------------------------------
(* The catalog *)

Product(t, p, img, url) == [title |-> t, price |-> p, image_url |-> img, view_more_url |-> url]

SAMPLE_PRODUCTS == <<
    Product(<<"P", "e", "r", "s", "o", "n", "a", "l", "i", "z", "e", "d", " ", "C", "o", "f", "f", "e", "e", " ", "M", "u", "g">>,
            "$15", "http://example.com/coffeemug.jpg", "http://example.com/coffeemug"),
    Product(<<"S", "c", "e", "n", "t", "e", "d", " ", "C", "a", "n", "d", "l", "e", " ", "S", "e", "t">>,
            "$20", "http://example.com/scentedcandles.jpg", "http://example.com/scentedcandles"),
    Product(<<"W", "a", "r", "m", " ", "W", "i", "n", "t", "e", "r", " ", "S", "c", "a", "r", "f">>,
            "$40", "http://example.com/winterscarf.jpg", "http://example.com/winterscarf"),
    Product(<<"B", "o", "x", " ", "o", "f", " ", "G", "o", "u", "r", "m", "e", "t", " ", "C", "h", "o", "c", "o", "l", "a", "t", "e", "s">>,
            "$35", "http://example.com/gourmetchocolates.jpg", "http://example.com/gourmetchocolates"),
    Product(<<"I", "n", "d", "o", "o", "r", " ", "H", "e", "r", "b", " ", "G", "a", "r", "d", "e", "n", " ", "K", "i", "t">>,
            "$45", "http://example.com/herbgarden.jpg", "http://example.com/herbgarden"),
    Product(<<"L", "e", "a", "t", "h", "e", "r", " ", "W", "a", "l", "l", "e", "t">>,
            "$60", "http://example.com/leatherwallet.jpg", "http://example.com/leatherwallet"),
    Product(<<"C", "o", "z", "y", " ", "T", "h", "r", "o", "w", " ", "B", "l", "a", "n", "k", "e", "t">>,
            "$35", "http://example.com/cozyblanket.jpg", "http://example.com/cozyblanket"),
    Product(<<"F", "l", "o", "w", "e", "r", "s", " ", "f", "o", "r", " ", "M", "o", "t", "h", "e", "r", "'", "s", " ", "D", "a", "y">>,
            "$25", "http://example.com/mothersdayflowers.jpg", "http://example.com/mothersdayflowers"),
    Product(<<"L", "u", "x", "u", "r", "y", " ", "H", "a", "n", "d", "b", "a", "g">>,
            "$150", "http://example.com/luxuryhandbag.jpg", "http://example.com/luxuryhandbag"),
    Product(<<"C", "h", "o", "c", "o", "l", "a", "t", "e", " ", "C", "a", "k", "e">>,
            "$30", "http://example.com/chocolatecake.jpg", "http://example.com/chocolatecake")
>>

----------------------------------------------------------------------------
(* What the user types and what the Text Generator answers *)

GatherFields == <<"name", "gift_subject", "gift_object", "price_range">>

\* the question_task each field is collected with
TaskOf(field) ==
    CASE field = "name" -> "ask_for_name"
      [] field = "gift_subject" -> "ask_for_recipient"
      [] field = "gift_object" -> "ask_for_gift_type"
      [] field = "price_range" -> "ask_for_price_range"

\* the lines input("> ") can return, before strip()
UserLines(field) ==
    CASE field = "name" ->
            {<< >>, <<" ", " ", " ">>, <<"A", "n", "a">>, <<" ", "B", "o", "\t">>}
      [] field = "gift_subject" ->
            {<< >>, <<"m", "y", " ", "s", "i", "s", "t", "e", "r">>}
      [] field = "gift_object" ->
            {<<"\t">>,
             <<"c", "a", "n", "d", "l", "e", "s">>,
             <<"C", "o", "f", "f", "e", "e", " ", "l", "o", "v", "e", "r">>,
             <<"c", "o", "f", "f", "e", "e", " ", "a", "n", "d", " ", "c", "h", "o", "c", "o", "l", "a", "t", "e">>,
             <<"s", "c", "a", "r", "f", " ", "w", "a", "l", "l", "e", "t", " ", "b", "l", "a", "n", "k", "e", "t", " ", "h", "a", "n", "d", "b", "a", "g">>}
      [] field = "price_range" ->
            {<< >>, <<" ">>,
             <<"a", "r", "o", "u", "n", "d", " ", "f", "o", "r", "t", "y", " ", "d", "o", "l", "l", "a", "r", "s">>,
             <<"$", "2", "0">>, <<" ", "$", "4", "0", " ">>}

\* response.content of the validation and confirmation calls
VerdictResponses ==
    {<< >>,
     <<"\n", " ", "\n">>,
     <<"Y", "E", "S", "\n", "L", "o", "o", "k", "s", " ", "f", "i", "n", "e", ".">>,
     <<"y", "e", "s", "\n", "o", "k">>,
     <<" ", " ", "Y", "e", "s", " ", " ", "\n", "o", "k">>,
     <<"\n", "\n", "y", "E", "s", "\r", "\n", "o", "k">>,
     <<"N", "O", "\n", "W", "e", " ", "d", "o", " ", "n", "o", "t", " ", "a", "l", "l", "o", "w", " ", "p", "r", "o", "f", "a", "n", "i", "t", "y", ".">>,
     <<"n", "o", "\n", "w", "r", "o", "n", "g">>,
     <<"U", "N", "K", "N", "O", "W", "N", "\n", "N", "o", "t", " ", "s", "u", "r", "e", ".">>,
     <<"Y", "E", "S", ".">>,
     <<"Y", "e", "s", ",", " ", "v", "a", "l", "i", "d">>,
     <<"S", "u", "r", "e", "\n", "Y", "E", "S">>,
     <<"N", "o", "p", "e", "\n", "N", "O">>}

\* response.content of the summary call
SummaryResponses ==
    {<< >>,
     <<" ", "\n">>,
     <<"A", "l", "l", " ", "s", "e", "t", "?", " ", "(", "y", "e", "s", "/", "n", "o", ")", "\n">>}

YES == <<"Y", "E", "S">>

NO == <<"N", "O">>

----------------------------------------------------------------------------
(* validate_input_llm and interpret_confirmation_with_llm, from the call's response on *)

ValidateCaseSensitive(response) ==
    LET lines == NonBlankLines(response)
    IN  IF lines = << >> THEN FALSE ELSE lines[1] = YES

ValidateInputLlm(response) ==
    LET lines == NonBlankLines(response)
    IN  IF lines = << >> THEN FALSE ELSE Upper(lines[1]) = YES

InterpretCoercesUnknown(response) ==
    LET lines == NonBlankLines(response)
    IN  IF lines = << >> THEN "UNKNOWN"
        ELSE IF Upper(lines[1]) = YES THEN "CONFIRM"
        ELSE "DENY"

\* Optional[bool] as a verdict: True, False, None
InterpretConfirmationWithLlm(response) ==
    LET lines == NonBlankLines(response)
    IN  IF lines = << >> THEN "UNKNOWN"
        ELSE IF Upper(lines[1]) = YES THEN "CONFIRM"
        ELSE IF Upper(lines[1]) = NO THEN "DENY"
        ELSE "UNKNOWN"

----------------------------------------------------------------------------
(* recommend_products: the candidates *)

CandidateCount == 3

MatchesCaseSensitive(gift_object, product) ==
    ToSet(Split(Lower(gift_object))) \cap ToSet(Split(product.title)) # {}

MatchesPrefix(gift_object, product) ==
    \E u \in ToSet(Split(Lower(gift_object))), t \in ToSet(Split(Lower(product.title))) :
        \/ Len(u) <= Len(t) /\ SubSeq(t, 1, Len(u)) = u
        \/ Len(t) <= Len(u) /\ SubSeq(u, 1, Len(t)) = t

\* set(user_words).intersection(set(title_words)) is non-empty
Matches(gift_object, product) ==
    ToSet(Split(Lower(gift_object))) \cap ToSet(Split(Lower(product.title))) # {}

\* the products of the catalog that match, in catalog order
Relevant(gift_object) ==
    SelectSeq(catalog, LAMBDA p : Matches(gift_object, p))

RECURSIVE BackfillDuplicates(_, _)
BackfillDuplicates(relevant, i) ==
    IF i > Len(catalog) THEN relevant
    ELSE LET appended == Append(relevant, catalog[i])
         IN  IF Len(appended) >= CandidateCount THEN appended
             ELSE BackfillDuplicates(appended, i + 1)

\* the backfill loop, from catalog position i on
RECURSIVE Backfill(_, _)
Backfill(relevant, i) ==
    IF i > Len(catalog) THEN relevant
    ELSE LET product == catalog[i]
             appended == IF product \notin ToSet(relevant)
                         THEN Append(relevant, product) ELSE relevant
         IN  IF Len(appended) >= CandidateCount THEN appended
             ELSE Backfill(appended, i + 1)

\* relevant[:3]
FinalCandidates(gift_object) ==
    LET relevant == Relevant(gift_object)
        filled == IF Len(relevant) < CandidateCount THEN Backfill(relevant, 1) ELSE relevant
    IN  SubSeq(filled, 1, IF Len(filled) < CandidateCount THEN Len(filled) ELSE CandidateCount)

----------------------------------------------------------------------------
(* recommend_products: the formatting response and eval *)

\* a Python value: its type, for a list the type of its elements, and the elements
PyList(elem, items) == [type |-> "list", elem |-> elem, items |-> items]

PyNone == [type |-> "NoneType", elem |-> "none", items |-> << >>]

PyInt == [type |-> "int", elem |-> "none", items |-> << >>]

\* products as the generator rewrites them
GeneratedProducts == <<
    Product(<<"M", "u", "g">>, "$15", "http://example.com/coffeemug.jpg", "http://example.com/coffeemug"),
    Product(<<"C", "a", "n", "d", "l", "e">>, "$20", "http://example.com/scentedcandles.jpg", "http://example.com/scentedcandles"),
    Product(<<"S", "c", "a", "r", "f">>, "$40", "http://example.com/winterscarf.jpg", "http://example.com/winterscarf"),
    Product(<<"C", "a", "k", "e">>, "$30", "http://example.com/chocolatecake.jpg", "http://example.com/chocolatecake")
>>

\* response.content of the formatting call: texts eval() raises on ...
RawEmpty == ""

\* a markdown fence around the array (the fence characters are spelled out)
RawFenced == "<fence>json [{'title': 'Mug', ...}, ...] <fence>"

RawProse == "Here are three ideas: [{'title': 'Mug', ...}, ...]"

RawJsonNull == "[{'title': 'Mug', 'price': null, ...}, ...]"

\* ... and texts eval() returns a value for
RawThree == "[{'title': 'Mug', ...}, {'title': 'Candle', ...}, {'title': 'Scarf', ...}]"

RawTwo == "[{'title': 'Mug', ...}, {'title': 'Candle', ...}]"

RawFour == "[{'title': 'Mug', ...}, {'title': 'Candle', ...}, {'title': 'Scarf', ...}, {'title': 'Cake', ...}]"

RawNoProducts == "[]"

RawTitles == "['Mug', 'Candle', 'Scarf']"

RawNone == "None"

RawNumber == "3"

Unparseable == {RawEmpty, RawFenced, RawProse, RawJsonNull}

FormatResponses ==
    Unparseable \cup {RawThree, RawTwo, RawFour, RawNoProducts, RawTitles, RawNone, RawNumber}

\* eval(raw_json): whether it raises, and the value it returns otherwise
PyEval(raw) ==
    CASE raw \in Unparseable -> [raises |-> TRUE, value |-> PyNone]
      [] raw = RawThree -> [raises |-> FALSE, value |-> PyList("dict", SubSeq(GeneratedProducts, 1, 3))]
      [] raw = RawTwo -> [raises |-> FALSE, value |-> PyList("dict", SubSeq(GeneratedProducts, 1, 2))]
      [] raw = RawFour -> [raises |-> FALSE, value |-> PyList("dict", GeneratedProducts)]
      [] raw = RawNoProducts -> [raises |-> FALSE, value |-> PyList("dict", << >>)]
      [] raw = RawTitles ->
            [raises |-> FALSE,
             value |-> PyList("str", <<GeneratedProducts[1].title, GeneratedProducts[2].title,
                                       GeneratedProducts[3].title>>)]
      [] raw = RawNone -> [raises |-> FALSE, value |-> PyNone]
      [] raw = RawNumber -> [raises |-> FALSE, value |-> PyInt]

FallbackEmpty(raw, final_candidates) ==
    IF PyEval(raw).raises THEN PyList("dict", << >>) ELSE PyEval(raw).value

\* try: eval(raw_json) except: final_candidates
ParseOrFallback(raw, final_candidates) ==
    IF PyEval(raw).raises THEN PyList("dict", final_candidates) ELSE PyEval(raw).value

\* what state["product_list"] holds after the assignment
AsOptional(value) == IF value.type = "NoneType" THEN None ELSE Some(value)

\* the exception of the loop `for p in state["product_list"]: p.get(...)`, or "none"
DisplayError(value) ==
    IF value.type \in {"NoneType", "int"} THEN "TypeError"
    ELSE IF value.elem # "dict" /\ value.items # << >> THEN "AttributeError"
    ELSE "none"

----------------------------------------------------------------------------
(* The stages *)

ZeroIO == [generator |-> 0, input |-> 0, validator |-> 0, interpreter |-> 0]

PreCheckNoDigit(task, user_input) == user_input # << >>

\* the structural pre-checks of ask_and_validate, on the stripped input
PreCheck(task, user_input) ==
    /\ user_input # << >>
    /\ task = "ask_for_price_range" => HasDigit(user_input)

MissingWrongKey(s, field) == IsNone(s["price_range"])

\* `state[field] is None`: the field is still to be collected
Missing(s, field) == IsNone(s[field])

NextFieldLast(s) ==
    IF \E i \in DOMAIN GatherFields : Missing(s, GatherFields[i])
    THEN CHOOSE i \in DOMAIN GatherFields :
            /\ Missing(s, GatherFields[i])
            /\ \A j \in DOMAIN GatherFields : j > i => ~Missing(s, GatherFields[j])
    ELSE 0

\* the position in GatherFields of the field gather_information collects next, 0 if none
NextField(s) ==
    IF \E i \in DOMAIN GatherFields : Missing(s, GatherFields[i])
    THEN CHOOSE i \in DOMAIN GatherFields :
            /\ Missing(s, GatherFields[i])
            /\ \A j \in DOMAIN GatherFields : j < i => ~Missing(s, GatherFields[j])
    ELSE 0

AskAndValidateUnstripped(s, field, line, response) ==
    IF PreCheck(TaskOf(field), Strip(line)) /\ ValidateInputLlm(response)
    THEN [s EXCEPT ![field] = Some(line)]
    ELSE s

\* one iteration of the loop of ask_and_validate: the record after it
AskAndValidate(s, field, line, response) ==
    LET user_input == Strip(line)
    IN  IF PreCheck(TaskOf(field), user_input) /\ ValidateInputLlm(response)
        THEN [s EXCEPT ![field] = Some(user_input)]
        ELSE s

\* the collaborators one iteration of ask_and_validate calls
AskIO(field, line) ==
    [ZeroIO EXCEPT !.generator = 1, !.input = 1,
                   !.validator = IF PreCheck(TaskOf(field), Strip(line)) THEN 1 ELSE 0]

\* the guard of provide_summary
AllGathered(s) ==
    Truthy(s.name) /\ Truthy(s.gift_subject) /\ Truthy(s.gift_object) /\ Truthy(s.price_range)

ConfirmedUnlessDenied(interpretation) == interpretation # "DENY"

\* `interpretation is True`
Confirmed(interpretation) == interpretation = "CONFIRM"

ResetKeepsPrice(s) ==
    [s EXCEPT !.name = None, !.gift_subject = None, !.gift_object = None,
              !.summary = None, !.product_list = None]

\* the else branch of provide_summary
Reset(s) ==
    [s EXCEPT !.name = None, !.gift_subject = None, !.gift_object = None,
              !.price_range = None, !.summary = None, !.product_list = None]

\* provide_summary: the record it returns
ProvideSummaryStage(s, summary_response, interpretation) ==
    IF ~AllGathered(s) THEN s
    ELSE IF Confirmed(interpretation)
         THEN [s EXCEPT !.summary = Some(Strip(summary_response))]
         ELSE Reset(s)

HasSummaryAlways(s) == TRUE

\* the guard of recommend_products
HasSummary(s) == Truthy(s.summary)

\* (state["gift_object"] or "")
GiftObject(s) == IF Truthy(s.gift_object) THEN s.gift_object[1] ELSE << >>

CatalogSortedByRelevance(gift_object) ==
    Relevant(gift_object) \o SelectSeq(catalog, LAMBDA p : ~Matches(gift_object, p))

\* the catalog after recommend_products selected the candidates: `relevant` is a new
\* list, the catalog is only iterated
CatalogAfterRecommend(gift_object) == catalog

\* the value recommend_products assigns to state["product_list"]
Recommended(s, raw) == ParseOrFallback(raw, FinalCandidates(GiftObject(s)))

----------------------------------------------------------------------------
(* The graph *)

Nodes == {"gather_information", "provide_summary", "recommend_products"}

\* the nodes the edges of `node` trigger once it returned s; END triggers nothing
Successors(node, s) ==
    CASE node = "gather_information" -> {"provide_summary"}
      [] node = "provide_summary" ->
            {"recommend_products"}
            \cup {IF ~Truthy(s.summary) THEN "gather_information" ELSE "recommend_products"}
      [] node = "recommend_products" ->
            IF ~Truthy(s.summary) THEN {"provide_summary"} ELSE {}

\* the nodes of the superstep that write channel key
Writers(key) == {n \in active : key \in DOMAIN local[n]}

Runnable(node) == pc = "running" /\ node \in active /\ node \notin finished

NoLast ==
    [op |-> "none", field |-> "none", line |-> << >>, response |-> << >>,
     summary |-> << >>, raw |-> RawEmpty, verdict |-> "none", before |-> EmptyState,
     candidates |-> << >>, io |-> ZeroIO]

Init ==
    /\ state = EmptyState
    /\ pc = "start"
    /\ channels = EmptyState
    /\ active = {}
    /\ finished = {}
    /\ local = [n \in Nodes |-> EmptyState]
    /\ error = "none"
    /\ catalog = SAMPLE_PRODUCTS
    /\ last = NoLast

\* graph.invoke(state): the first superstep runs the node START leads to
Invoke ==
    /\ pc = "start"
    /\ pc' = "running"
    /\ channels' = state
    /\ active' = {"gather_information"}
    /\ finished' = {}
    /\ local' = [n \in Nodes |-> state]
    /\ last' = [NoLast EXCEPT !.op = "invoke", !.before = state]
    /\ UNCHANGED <<state, error, catalog>>

\* gather_information: one iteration of ask_and_validate for the next missing field
GatherAsk ==
    /\ Runnable("gather_information")
    /\ NextField(local["gather_information"]) # 0
    /\ LET s == local["gather_information"]
           field == GatherFields[NextField(s)]
       IN  \E line \in UserLines(field), response \in VerdictResponses :
              /\ local' = [local EXCEPT !["gather_information"] =
                                AskAndValidate(s, field, line, response)]
              /\ last' = [NoLast EXCEPT
                            !.op = "ask", !.field = field, !.line = line,
                            !.response = IF AskIO(field, line).validator = 1
                                         THEN response ELSE << >>,
                            !.before = s, !.io = AskIO(field, line)]
    /\ UNCHANGED <<state, pc, channels, active, finished, error, catalog>>

\* gather_information: nothing is missing, return state
GatherReturn ==
    /\ Runnable("gather_information")
    /\ NextField(local["gather_information"]) = 0
    /\ finished' = finished \cup {"gather_information"}
    /\ last' = [NoLast EXCEPT !.op = "gather_return", !.before = local["gather_information"]]
    /\ UNCHANGED <<state, pc, channels, active, local, error, catalog>>

\* provide_summary
ProvideSummary ==
    /\ Runnable("provide_summary")
    /\ LET s == local["provide_summary"]
       IN  IF ~AllGathered(s)
           THEN /\ local' = local
                /\ last' = [NoLast EXCEPT !.op = "provide_summary", !.before = s]
           ELSE \E summary_response \in SummaryResponses, response \in VerdictResponses :
                  LET interpretation == InterpretConfirmationWithLlm(response)
                  IN  /\ local' = [local EXCEPT !["provide_summary"] =
                                      ProvideSummaryStage(s, summary_response, interpretation)]
                      /\ last' = [NoLast EXCEPT
                                    !.op = "provide_summary", !.before = s,
                                    !.summary = summary_response, !.response = response,
                                    !.verdict = interpretation,
                                    !.io = [ZeroIO EXCEPT !.generator = 1, !.input = 1,
                                                          !.interpreter = 1]]
    /\ finished' = finished \cup {"provide_summary"}
    /\ UNCHANGED <<state, pc, channels, active, error, catalog>>

\* recommend_products
RecommendProducts ==
    /\ Runnable("recommend_products")
    /\ LET s == local["recommend_products"]
       IN  IF ~HasSummary(s)
           THEN /\ local' = local
                /\ finished' = finished \cup {"recommend_products"}
                /\ last' = [NoLast EXCEPT !.op = "recommend_products", !.before = s]
                /\ UNCHANGED <<pc, error, catalog>>
           ELSE \E raw \in FormatResponses :
                  LET value == Recommended(s, raw)
                  IN  /\ catalog' = CatalogAfterRecommend(GiftObject(s))
                      /\ local' = [local EXCEPT !["recommend_products"] =
                                      [s EXCEPT !.product_list = AsOptional(value)]]
                      /\ last' = [NoLast EXCEPT
                                    !.op = "recommend_products", !.before = s, !.raw = raw,
                                    !.verdict = "recommended",
                                    !.candidates = FinalCandidates(GiftObject(s)),
                                    !.io = [ZeroIO EXCEPT !.generator = 1]]
                      /\ IF DisplayError(value) = "none"
                         THEN /\ finished' = finished \cup {"recommend_products"}
                              /\ UNCHANGED <<pc, error>>
                         ELSE /\ pc' = "error"
                              /\ error' = DisplayError(value)
                              /\ UNCHANGED finished
    /\ UNCHANGED <<state, channels, active>>

\* the end of a superstep: the writes of its nodes are applied to the channels and
\* the nodes their edges trigger are scheduled; with none, graph.invoke returns
ApplyWrites ==
    /\ pc = "running"
    /\ active # {}
    /\ finished = active
    /\ IF \E key \in Fields : Cardinality(Writers(key)) > 1
       THEN /\ pc' = "error"
            /\ error' = "InvalidUpdateError"
            /\ UNCHANGED <<state, channels, active, finished, local>>
       ELSE LET written == [key \in Fields |->
                              IF Writers(key) = {} THEN channels[key]
                              ELSE local[CHOOSE n \in Writers(key) : TRUE][key]]
                next == UNION {Successors(n, local[n]) : n \in active}
            IN  /\ channels' = written
                /\ active' = next
                /\ finished' = {}
                /\ local' = [n \in Nodes |-> written]
                /\ IF next = {}
                   THEN pc' = "returned" /\ state' = written
                   ELSE UNCHANGED <<pc, state>>
                /\ UNCHANGED error
    /\ last' = [NoLast EXCEPT !.op = "apply_writes", !.before = channels]
    /\ UNCHANGED catalog

\* step_by_step_interaction: break when product_list is set, else invoke again
DriverCheck ==
    /\ pc = "returned"
    /\ pc' = IF ~IsNone(state.product_list) THEN "done" ELSE "start"
    /\ last' = [NoLast EXCEPT !.op = "driver_check", !.before = state]
    /\ UNCHANGED <<state, channels, active, finished, local, error, catalog>>

Next ==
    \/ Invoke
    \/ GatherAsk
    \/ GatherReturn
    \/ ProvideSummary
    \/ RecommendProducts
    \/ ApplyWrites
    \/ DriverCheck

Spec == Init /\ [][Next]_vars

----------------------------------------------------------------------------
(* Claims *)

GatherFieldSet == ToSet(GatherFields)

\* every copy of the conversation record there is: the driver's, the channels', the nodes'
Records == {state, channels} \cup {local[n] : n \in Nodes}

\* C1: in every reachable state, summary is non-null only if name, gift_subject,
\* gift_object and price_range are all non-null, and product_list is non-null only
\* if summary is non-null.
C1_SummaryBeforeProducts ==
    \A r \in Records :
        /\ ~IsNone(r.summary) => \A f \in GatherFieldSet : ~IsNone(r[f])
        /\ ~IsNone(r.product_list) => ~IsNone(r.summary)

C1_Witness ==
    /\ pc = "done"
    /\ ~IsNone(state.product_list)
    /\ ~IsNone(state.summary)

\* C2: when the confirmation step of provide_summary ran and the verdict is DENY,
\* all six fields of the record the stage returns are null.
C2_DenyClearsAll ==
    (last.op = "provide_summary" /\ last.verdict = "DENY")
        => \A f \in Fields : IsNone(local["provide_summary"][f])

C2_Witness ==
    /\ last.op = "provide_summary"
    /\ last.verdict = "DENY"
    /\ \A f \in GatherFieldSet : ~IsNone(last.before[f])
    /\ "provide_summary" \in finished

\* C3: in every terminal state (the driver stopped with product_list set)
\* product_list has exactly 3 entries, whatever the formatting response was.
C3_ExactlyThree ==
    pc = "done" => Len(state.product_list[1].items) = CandidateCount

\* C4: when eval of the formatting response raises (empty text, fenced text, ...),
\* recommend_products stores exactly final_candidates, three elements in the same
\* order, and no exception ends the stage.
C4_FallbackIsFinalCandidates ==
    (last.op = "recommend_products" /\ last.verdict = "recommended" /\ last.raw \in Unparseable)
        => /\ local["recommend_products"].product_list = Some(PyList("dict", last.candidates))
           /\ Len(last.candidates) = CandidateCount
           /\ \A i \in DOMAIN last.candidates :
                local["recommend_products"].product_list[1].items[i] = last.candidates[i]
           /\ error = "none"
           /\ "recommend_products" \in finished

C4_Witness ==
    /\ last.op = "recommend_products"
    /\ last.verdict = "recommended"
    /\ last.raw = RawFenced
    /\ Len(Relevant(GiftObject(last.before))) = 1

\* C5: a gather field that is non-null is never asked for and keeps its value, and
\* gather_information on a record with all four fields set returns it unchanged
\* without any prompt, input or validation.
C5_CollectIdempotent ==
    /\ last.op = "ask" =>
          /\ IsNone(last.before[last.field])
          /\ \A f \in GatherFieldSet :
                ~IsNone(last.before[f]) => local["gather_information"][f] = last.before[f]
    /\ ("gather_information" \in active /\ \A f \in GatherFieldSet : ~IsNone(channels[f]))
          => /\ local["gather_information"] = channels
             /\ last.op # "ask"

C5_Witness ==
    /\ "gather_information" \in finished
    /\ \A f \in GatherFieldSet : ~IsNone(channels[f])
    /\ last.op = "gather_return"
    /\ last.io = ZeroIO

\* C6: an input that is empty or whitespace-only, or for price_range has no decimal
\* digit, is never given to the validator: the field stays null and is asked again.
C6_NoValidatorOnPreCheckFailure ==
    (/\ last.op = "ask"
     /\ \/ \A i \in DOMAIN last.line : last.line[i] \in Whitespace
        \/ last.field = "price_range" /\ \A i \in DOMAIN last.line : last.line[i] \notin Digits)
        => /\ last.io.validator = 0
           /\ IsNone(local["gather_information"][last.field])
           /\ NextField(local["gather_information"]) # 0
           /\ GatherFields[NextField(local["gather_information"])] = last.field

C6_Witness ==
    /\ last.op = "ask"
    /\ last.field = "price_range"
    /\ Strip(last.line) # << >>
    /\ ~HasDigit(last.line)
    /\ last.io.validator = 0

\* C7: when the interpreter returns UNKNOWN, provide_summary returns the state it
\* returns for DENY on the same record: the full reset, summary not stored.
C7_UnknownSameAsDeny ==
    (last.op = "provide_summary" /\ last.verdict = "UNKNOWN")
        => /\ local["provide_summary"] = ProvideSummaryStage(last.before, last.summary, "DENY")
           /\ local["provide_summary"] = EmptyState

C7_Witness ==
    /\ last.op = "provide_summary"
    /\ last.verdict = "UNKNOWN"
    /\ AllGathered(last.before)
    /\ last.response = <<"Y", "E", "S", ".">>

\* C8: the driver stops re-invoking the graph only in a state where product_list is
\* non-null; as long as product_list is null it runs the stage sequence again.
C8_StopsOnlyWithProducts ==
    pc \in {"done", "error"} => ~IsNone(state.product_list)

\* C9: at no point are two stages scheduled in the same superstep: after every
\* stage exactly one successor (or the end) is chosen.
C9_OneStageAtATime == Cardinality(active) <= 1

\* the responses of VerdictResponses whose first non-blank line is yes in some case
YesResponses ==
    {<<"Y", "E", "S", "\n", "L", "o", "o", "k", "s", " ", "f", "i", "n", "e", ".">>,
     <<"y", "e", "s", "\n", "o", "k">>,
     <<" ", " ", "Y", "e", "s", " ", " ", "\n", "o", "k">>,
     <<"\n", "\n", "y", "E", "s", "\r", "\n", "o", "k">>}

\* C10: the validator fails closed: the input is stored exactly when the first
\* non-blank line of the response is YES in some case; for every other response,
\* empty and all-blank ones included, the field stays null and is asked again.
C10_ValidatorFailsClosed ==
    (last.op = "ask" /\ last.io.validator = 1)
        => IF last.response \in YesResponses
           THEN local["gather_information"][last.field] = Some(Strip(last.line))
           ELSE /\ IsNone(local["gather_information"][last.field])
                /\ GatherFields[NextField(local["gather_information"])] = last.field

C10_Witness ==
    /\ last.op = "ask"
    /\ last.io.validator = 1
    /\ last.response = <<"S", "u", "r", "e", "\n", "Y", "E", "S">>
    /\ IsNone(local["gather_information"][last.field])

\* the responses of VerdictResponses whose first non-blank line is no in some case
NoResponses ==
    {<<"N", "O", "\n", "W", "e", " ", "d", "o", " ", "n", "o", "t", " ", "a", "l", "l", "o", "w", " ", "p", "r", "o", "f", "a", "n", "i", "t", "y", ".">>,
     <<"n", "o", "\n", "w", "r", "o", "n", "g">>}

\* C11: the interpreter returns CONFIRM exactly when the first non-blank line of the
\* response is YES in some case, DENY exactly when it is NO, and UNKNOWN for every
\* other response, the empty one included.
C11_InterpreterVerdicts ==
    (last.op = "provide_summary" /\ last.io.interpreter = 1)
        => /\ last.verdict = "CONFIRM" <=> last.response \in YesResponses
           /\ last.verdict = "DENY" <=> last.response \in NoResponses
           /\ last.verdict = "UNKNOWN" <=> last.response \notin YesResponses \cup NoResponses

C11_Witness ==
    /\ last.op = "provide_summary"
    /\ last.io.interpreter = 1
    /\ last.response = <<"N", "o", "p", "e", "\n", "N", "O">>
    /\ last.verdict = "UNKNOWN"

\* the last operation stored a value in the field it asked for
Stored == last.op = "ask" /\ local["gather_information"][last.field] # last.before[last.field]

\* C12 as stated: every gather field is null or exactly a non-empty input line the
\* validator accepted for the field's task, and price_range has a decimal digit.
C12_ExactlyTheInputLine ==
    /\ \A r \in Records : \A f \in GatherFieldSet :
          ~IsNone(r[f]) => /\ r[f][1] # << >>
                           /\ r[f][1] \in UserLines(f)
                           /\ f = "price_range" => \E i \in DOMAIN r[f][1] : r[f][1][i] \in Digits
    /\ Stored => /\ local["gather_information"][last.field] = Some(last.line)
                 /\ last.io.validator = 1
                 /\ last.response \in YesResponses

\* C12, amended: every gather field is null or a non-empty input line with its
\* leading and trailing whitespace removed, which the validator accepted for the
\* field's task; price_range, when non-null, has a decimal digit.
C12_TheStrippedInputLine ==
    /\ \A r \in Records : \A f \in GatherFieldSet :
          ~IsNone(r[f]) => /\ r[f][1] # << >>
                           /\ \E line \in UserLines(f) : r[f][1] = Strip(line)
                           /\ r[f][1][1] \notin Whitespace
                           /\ r[f][1][Len(r[f][1])] \notin Whitespace
                           /\ f = "price_range" => \E i \in DOMAIN r[f][1] : r[f][1][i] \in Digits
    /\ Stored => /\ local["gather_information"][last.field] = Some(Strip(last.line))
                 /\ last.io.validator = 1
                 /\ last.response \in YesResponses

C12_Witness ==
    /\ Stored
    /\ last.field = "price_range"
    /\ last.line = <<" ", "$", "4", "0", " ">>
    /\ local["gather_information"].price_range = Some(<<"$", "4", "0">>)

\* C14: the catalog is never changed: after any sequence of stage executions it
\* holds the same 10 entries with the same field values in the same order.
C14_CatalogUnchanged ==
    /\ catalog = SAMPLE_PRODUCTS
    /\ Len(catalog) = Len(SAMPLE_PRODUCTS)
    /\ \A i \in DOMAIN SAMPLE_PRODUCTS :
          /\ catalog[i].title = SAMPLE_PRODUCTS[i].title
          /\ catalog[i].price = SAMPLE_PRODUCTS[i].price
          /\ catalog[i].image_url = SAMPLE_PRODUCTS[i].image_url
          /\ catalog[i].view_more_url = SAMPLE_PRODUCTS[i].view_more_url

\* the fallback stored catalog entries, two of them matches, and the session ended
C14_Witness ==
    /\ pc = "done"
    /\ ~IsNone(state.product_list)
    /\ Len(Relevant(GiftObject(state))) = 2
    /\ \A i \in DOMAIN state.product_list[1].items :
          state.product_list[1].items[i] \in ToSet(SAMPLE_PRODUCTS)

\* the record of the end-to-end scenario once the summary is confirmed and stored
Scenario(s) ==
    /\ s.name = Some(<<"A", "n", "a">>)
    /\ s.gift_subject = Some(<<"m", "y", " ", "s", "i", "s", "t", "e", "r">>)
    /\ s.gift_object = Some(<<"c", "a", "n", "d", "l", "e", "s">>)
    /\ s.price_range = Some(<<"$", "2", "0">>)
    /\ Truthy(s.summary)

ScenarioRecommended ==
    last.op = "recommend_products" /\ last.verdict = "recommended" /\ Scenario(last.before)

ScentedCandleSet == SAMPLE_PRODUCTS[2]

\* C13 as stated: in the end-to-end scenario recommend_products selects "Scented
\* Candle Set" as a token-overlap match and backfills exactly 2 more catalog entries.
C13_CandleSetIsAMatch ==
    ScenarioRecommended
        => /\ ScentedCandleSet \in ToSet(Relevant(GiftObject(last.before)))
           /\ Len(last.candidates) = CandidateCount
           /\ Len(last.candidates) - Len(Relevant(GiftObject(last.before))) = 2

\* C13, amended: in the end-to-end scenario the summary is stored, no catalog title
\* shares a token with "candles", and recommend_products backfills 3 catalog entries,
\* the first three of the catalog, "Scented Candle Set" being the second.
C13_CandleSetIsBackfilled ==
    ScenarioRecommended
        => /\ ~IsNone(last.before.summary)
           /\ Relevant(GiftObject(last.before)) = << >>
           /\ Len(last.candidates) = CandidateCount
           /\ last.candidates = SubSeq(SAMPLE_PRODUCTS, 1, 3)
           /\ last.candidates[2] = ScentedCandleSet

C13_Witness ==
    /\ ScenarioRecommended
    /\ ~IsNone(local["recommend_products"].product_list)
    /\ "recommend_products" \in finished

\* the catalog positions whose title shares a lower-cased token with the gift type,
\* worked out by hand for each gift type the user can give
ExpectedMatches(gift_object) ==
    CASE gift_object = <<"c", "a", "n", "d", "l", "e", "s">> -> {}
      [] gift_object = <<"C", "o", "f", "f", "e", "e", " ", "l", "o", "v", "e", "r">> -> {1}
      [] gift_object = <<"c", "o", "f", "f", "e", "e", " ", "a", "n", "d", " ", "c", "h", "o", "c", "o", "l", "a", "t", "e">> -> {1, 10}
      [] gift_object = <<"s", "c", "a", "r", "f", " ", "w", "a", "l", "l", "e", "t", " ", "b", "l", "a", "n", "k", "e", "t", " ", "h", "a", "n", "d", "b", "a", "g">> -> {3, 6, 7, 9}

\* the catalog positions recommend_products found relevant
RelevantPositions(gift_object) ==
    {i \in DOMAIN catalog : catalog[i] \in ToSet(Relevant(gift_object))}

\* C15: a catalog product is relevant exactly when the lower-cased whitespace tokens
\* of gift_object and those of its title share a token; "Coffee lover" matches
\* "Personalized Coffee Mug".
C15_TokenOverlap ==
    (last.op = "recommend_products" /\ last.verdict = "recommended")
        => LET gift_object == GiftObject(last.before)
           IN  /\ RelevantPositions(gift_object) = ExpectedMatches(gift_object)
               /\ \A i \in DOMAIN catalog :
                     i \in RelevantPositions(gift_object)
                        <=> \E u \in ToSet(Split(Lower(gift_object))) :
                               \E k \in DOMAIN Split(Lower(catalog[i].title)) :
                                  Split(Lower(catalog[i].title))[k] = u
               /\ gift_object = <<"C", "o", "f", "f", "e", "e", " ", "l", "o", "v", "e", "r">>
                     => last.candidates[1] = SAMPLE_PRODUCTS[1]

C15_Witness ==
    /\ last.op = "recommend_products"
    /\ last.verdict = "recommended"
    /\ GiftObject(last.before) = <<"C", "o", "f", "f", "e", "e", " ", "l", "o", "v", "e", "r">>
    /\ last.candidates[1].title = <<"P", "e", "r", "s", "o", "n", "a", "l", "i", "z", "e", "d", " ", "C", "o", "f", "f", "e", "e", " ", "M", "u", "g">>

\* the catalog position of a product
PositionOf(product) == CHOOSE i \in DOMAIN SAMPLE_PRODUCTS : SAMPLE_PRODUCTS[i] = product

\* C16: final_candidates has exactly 3 pairwise distinct catalog entries: the matching
\* products first, in catalog order, then, when fewer than 3 match, the first catalog
\* products not already included, in catalog order; with 3 or more matches only the
\* first 3 matches and nothing else.
C16_FinalCandidates ==
    (last.op = "recommend_products" /\ last.verdict = "recommended")
        => LET c == last.candidates
               matches == ExpectedMatches(GiftObject(last.before))
               k == IF Cardinality(matches) < CandidateCount
                    THEN Cardinality(matches) ELSE CandidateCount
               pos == [j \in DOMAIN c |-> PositionOf(c[j])]
           IN  /\ Len(c) = CandidateCount
               /\ \A j \in DOMAIN c : c[j] \in ToSet(SAMPLE_PRODUCTS)
               /\ \A i, j \in DOMAIN c : i # j => c[i] # c[j]
               /\ \A j \in DOMAIN c : pos[j] \in matches <=> j <= k
               /\ \A i, j \in 1..k : i < j => pos[i] < pos[j]
               /\ \A i, j \in (k + 1)..CandidateCount : i < j => pos[i] < pos[j]
               /\ \A m \in matches : \A j \in 1..k : m \notin ToSet(pos) => pos[j] < m
               /\ \A n \in DOMAIN SAMPLE_PRODUCTS \ matches :
                     \A j \in (k + 1)..CandidateCount : n \notin ToSet(pos) => pos[j] < n

C16_Witness ==
    /\ last.op = "recommend_products"
    /\ last.verdict = "recommended"
    /\ ExpectedMatches(GiftObject(last.before)) = {1, 10}
    /\ last.candidates = <<SAMPLE_PRODUCTS[1], SAMPLE_PRODUCTS[10], SAMPLE_PRODUCTS[2]>>

\* with 4 matches the first 3 are taken and nothing is backfilled
C16_WitnessNoBackfill ==
    /\ last.op = "recommend_products"
    /\ last.verdict = "recommended"
    /\ last.candidates = <<SAMPLE_PRODUCTS[3], SAMPLE_PRODUCTS[6], SAMPLE_PRODUCTS[7]>>

\* C17: on CONFIRM provide_summary stores the summary, the only stage scheduled next
\* is recommend_products, and it sets product_list in the same pass, whatever the
\* summary text is, the empty one included.
C17_ConfirmLeadsToRecommendation ==
    /\ (last.op = "provide_summary" /\ last.verdict = "CONFIRM")
          => /\ ~IsNone(local["provide_summary"].summary)
             /\ Successors("provide_summary", local["provide_summary"]) = {"recommend_products"}
    /\ (last.op = "recommend_products" /\ ~IsNone(last.before.summary))
          => last.verdict = "recommended"

\* the superstep that follows a DENY or UNKNOWN confirmation: the record is reset and
\* the edges of provide_summary have fired
AfterDenial == channels = EmptyState /\ "recommend_products" \in active

\* what C18 says of the stages after a denial: gather_information is scheduled and
\* asks for the fields again, name first, and recommend_products sets no product_list
CollectsAgainAfterDenial ==
    AfterDenial
        => /\ "gather_information" \in active
           /\ local["gather_information"] = EmptyState => NextField(local["gather_information"]) = 1
           /\ last.op = "ask" => last.field = GatherFields[NextField(last.before)]
           /\ IsNone(local["recommend_products"].product_list)
           /\ "provide_summary" \notin active

\* C18: after a DENY or UNKNOWN confirmation the session loops back to gather: name is
\* asked next, the four fields are collected again in order before a new summary,
\* recommend_products sets no product_list in between, and the session does not stop
\* or fail.
C18_LoopsBackAfterDenial ==
    /\ CollectsAgainAfterDenial
    /\ AfterDenial => pc = "running" /\ error = "none"

\* C19: the fields are collected in the order name, gift_subject, gift_object,
\* price_range: in every record a later field is non-null only if the earlier ones
\* are; gather_information returns only with all four set, and provide_summary never
\* runs its confirmation step with a field missing.
C19_CollectedInOrder ==
    /\ \A r \in Records : \A i, j \in DOMAIN GatherFields :
          (i < j /\ ~IsNone(r[GatherFields[j]])) => ~IsNone(r[GatherFields[i]])
    /\ "gather_information" \in finished
          => \A f \in GatherFieldSet : ~IsNone(local["gather_information"][f])
    /\ last.op = "provide_summary"
          => /\ \A f \in GatherFieldSet : ~IsNone(last.before[f])
             /\ last.io.interpreter = 1

C19_Witness ==
    /\ last.op = "ask"
    /\ last.field = "gift_subject"
    /\ ~IsNone(local["gather_information"].name)
    /\ ~IsNone(local["gather_information"].gift_subject)
    /\ IsNone(local["gather_information"].gift_object)
    /\ IsNone(local["gather_information"].price_range)

\* C20: given that every generator call returns and the user eventually gives accepted
\* inputs and confirms, the session reaches the terminal state with product_list set;
\* rejected inputs, empty lines, missing digits and denied summaries only delay this
\* and never end the session.  A session that has failed stays failed, so the claim
\* requires that the superstep following a denied summary never fails.
C20_AnswersOnlyDelay ==
    AfterDenial => error # "InvalidUpdateError"

====
